---- MODULE Spec2Model ----
(***************************************************************************)
(* ftl2-scale: provisioning reconciler (provision.py), teardown reconciler *)
(* (teardown.py) and benchmark harness (scale_test.py) over the durable    *)
(* state document .ftl2-state.json and the ansible-inventory file.         *)
(*                                                                         *)
(* A resource name f"{stem}-{idx}" is the pair <<stem, idx>>; NameStr      *)
(* gives its character codes, on which startswith and sorted() work as in  *)
(* Python.  The ansible-inventory text is kept as its host lines; the      *)
(* "[scale]" header and the trailing empty line are the same in every      *)
(* file that is written.                                                   *)
(***************************************************************************)
EXTENDS Integers, Sequences, FiniteSets, TLC

VARIABLES stateFile, provider, inventory, run, prev, harness

vars == <<stateFile, provider, inventory, run, prev, harness>>

(* ------------------------------ bounds --------------------------------- *)
MaxCount == 3
MaxElapsed == 1
MaxElapsedOne == 3

Counts == 0..MaxCount
Procs == {1, 2}

(* ------------------------------ names ---------------------------------- *)
SERVER_PREFIX == <<102, 116, 108, 50, 45, 115, 99, 97, 108, 101>>
OtherStem == <<119, 101, 98>>

RECURSIVE Digits(_)
Digits(n) == IF n < 10 THEN <<48 + n>> ELSE Digits(n \div 10) \o <<48 + (n % 10)>>

NodeName(i) == <<"ftl2-scale", i>>
OtherName == <<"web", 0>>

\* the names of range(a, b)
Range(a, b) == {NodeName(i) : i \in a..(b - 1)}

NameStr(n) == (IF n[1] = "ftl2-scale" THEN SERVER_PREFIX ELSE OtherStem) \o <<45>> \o Digits(n[2])

StartsWith(s, pre) == Len(s) >= Len(pre) /\ SubSeq(s, 1, Len(pre)) = pre

Matches(n) == StartsWith(NameStr(n), SERVER_PREFIX)

RECURSIVE StrLess(_, _)
StrLess(a, b) ==
    IF a = <<>> THEN b # <<>>
    ELSE IF b = <<>> THEN FALSE
    ELSE IF Head(a) # Head(b) THEN Head(a) < Head(b)
    ELSE StrLess(Tail(a), Tail(b))

RECURSIVE Sorted(_)
Sorted(S) ==
    IF S = {} THEN <<>>
    ELSE LET m == CHOOSE x \in S : \A y \in S \ {x} : StrLess(NameStr(x), NameStr(y))
         IN <<m>> \o Sorted(S \ {m})

SeqSet(s) == {s[k] : k \in 1..Len(s)}

(* ---------------------------- State Store ------------------------------ *)
EmptyStore == [n \in {} |-> 0]

StateHas(m, n) == n \in DOMAIN m
StateGet(m, n) == m[n]
StateAdd(m, n, r) == [x \in (DOMAIN m) \cup {n} |-> IF x = n THEN r ELSE m[x]]
StateRemove(m, n) == [x \in (DOMAIN m) \ {n} |-> m[x]]
StateResources(m) == DOMAIN m

\* server["instance"] for a label: the scripts copy id and ipv4 and never branch
\* on them, so the provider's answer is fixed per label
Instance(n) == [id |-> 1000 + n[2], ipv4 |-> <<IF Matches(n) THEN 10 + n[2] ELSE 200 + n[2]>>]

ResourceRecord(n, server) == [provider |-> "linode", id |-> server.id, ipv4 |-> server.ipv4, label |-> n]

FleetNames(m) == {n \in StateResources(m) : Matches(n)}

(* ------------------------- Inventory Projection ------------------------ *)
NoInventory == [exists |-> FALSE, hosts |-> <<>>]

\* the startswith(SERVER_PREFIX) test left out
RECURSIVE HostLines_NoFilter(_, _)
HostLines_NoFilter(m, names) ==
    IF names = <<>> THEN <<>>
    ELSE LET name == Head(names) IN
         <<[name |-> name, ansible_host |-> StateGet(m, name).ipv4[1], ansible_user |-> "root"]>>
         \o HostLines_NoFilter(m, Tail(names))

RECURSIVE HostLines(_, _)
HostLines(m, names) ==
    IF names = <<>> THEN <<>>
    ELSE LET name == Head(names) IN
         (IF Matches(name)
             THEN <<[name |-> name, ansible_host |-> StateGet(m, name).ipv4[1], ansible_user |-> "root"]>>
             ELSE <<>>)
         \o HostLines(m, Tail(names))

WriteAnsibleInventory(m) == [exists |-> TRUE, hosts |-> HostLines(m, Sorted(StateResources(m)))]

(* ------------------------------- runs ---------------------------------- *)
IdleRun ==
    [pc |-> "idle", kind |-> "none", count |-> 0, check_mode |-> FALSE,
     i |-> 0, created |-> 0, state |-> EmptyStore, hosts |-> {}, names |-> <<>>,
     pre |-> EmptyStore, pre_inventory |-> NoInventory, requests |-> <<>>, waited |-> FALSE, total |-> -1,
     overlap |-> FALSE, error |-> "none"]

NoArgs == [setup |-> FALSE, test |-> "", ftl2_only |-> FALSE, ansible_only |-> FALSE]

IdleHarness ==
    [pc |-> "idle", args |-> NoArgs, venv |-> TRUE, playbooks |-> {},
     host_count |-> -1, tests_to_run |-> <<>>, all_results |-> <<>>, executed |-> <<>>,
     summary |-> FALSE, exit |-> -1, error |-> "none"]

\* what the operator knows of the invocation that ended before this one
NoPrev == [kind |-> "none", count |-> 0, check_mode |-> FALSE, error |-> "none", pre |-> {}]
Ended(r) == [kind |-> r.kind, count |-> r.count, check_mode |-> r.check_mode,
             error |-> r.error, pre |-> DOMAIN r.pre]

Request(op, name, result) == [op |-> op, label |-> name, result |-> result]

CanStart(p) == run[p].pc \in {"idle", "done"}

\* another invocation has the same state document open
Overlaps(p) == \E q \in Procs \ {p} : run[q].pc \notin {"idle", "done"}

Fail(r, err) == [r EXCEPT !.pc = "done", !.error = err]

Init ==
    /\ stateFile \in {EmptyStore, StateAdd(EmptyStore, OtherName, ResourceRecord(OtherName, Instance(OtherName)))}
    /\ provider = DOMAIN stateFile
    /\ inventory = NoInventory
    /\ run = [p \in Procs |-> IdleRun]
    /\ prev = NoPrev
    /\ harness = IdleHarness

(* --------------------------- provision.py ------------------------------ *)
\* range(count + 1) in place of range(count)
AfterLoop_OffByOne(p, r) ==
    IF r.i <= r.count
    THEN /\ run' = [run EXCEPT ![p] = r]
         /\ UNCHANGED inventory
    ELSE IF r.created > 0 /\ ~r.check_mode
    THEN /\ run' = [run EXCEPT ![p] = [r EXCEPT !.pc = "wait_for_ssh"]]
         /\ UNCHANGED inventory
    ELSE /\ run' = [run EXCEPT ![p] = [r EXCEPT !.pc = "done",
                                               !.total = Cardinality(FleetNames(r.state))]]
         /\ inventory' = WriteAnsibleInventory(r.state)

\* lines 94-105: after the loop
AfterLoop(p, r) ==
    IF r.i < r.count
    THEN /\ run' = [run EXCEPT ![p] = r]
         /\ UNCHANGED inventory
    ELSE IF r.created > 0 /\ ~r.check_mode
    THEN /\ run' = [run EXCEPT ![p] = [r EXCEPT !.pc = "wait_for_ssh"]]
         /\ UNCHANGED inventory
    ELSE /\ run' = [run EXCEPT ![p] = [r EXCEPT !.pc = "done",
                                               !.total = Cardinality(FleetNames(r.state))]]
         /\ inventory' = WriteAnsibleInventory(r.state)

\* range(1, count) in place of range(count)
StartProvision_FromOne(p, count, check_mode) ==
    /\ CanStart(p)
    /\ prev' = Ended(run[p])
    /\ AfterLoop(p, [IdleRun EXCEPT !.pc = "provision", !.kind = "provision",
                                    !.count = count, !.check_mode = check_mode,
                                    !.i = 1,
                                    !.state = stateFile, !.pre = stateFile,
                                    !.pre_inventory = inventory, !.overlap = Overlaps(p)])
    /\ UNCHANGED <<stateFile, provider, harness>>

StartProvision(p, count, check_mode) ==
    /\ CanStart(p)
    /\ prev' = Ended(run[p])
    /\ AfterLoop(p, [IdleRun EXCEPT !.pc = "provision", !.kind = "provision",
                                    !.count = count, !.check_mode = check_mode,
                                    !.state = stateFile, !.pre = stateFile,
                                    !.pre_inventory = inventory, !.overlap = Overlaps(p)])
    /\ UNCHANGED <<stateFile, provider, harness>>

\* state.get(name) is called without asking state.has(name) first
ProvisionExists_GetFirst(p) ==
    LET r == run[p] name == NodeName(r.i) IN
    /\ r.pc = "provision"
    /\ IF StateHas(r.state, name)
       THEN AfterLoop(p, [r EXCEPT !.i = r.i + 1])
       ELSE /\ run' = [run EXCEPT ![p] = Fail(r, "NotFoundError")]
            /\ UNCHANGED inventory
    /\ UNCHANGED <<stateFile, provider, prev, harness>>

ProvisionExists(p) ==
    LET r == run[p] name == NodeName(r.i) IN
    /\ r.pc = "provision"
    /\ StateHas(r.state, name)
    /\ AfterLoop(p, [r EXCEPT !.i = r.i + 1])
    /\ UNCHANGED <<stateFile, provider, prev, harness>>

\* the skipped marker is not tested before state.add
ProvisionSkipped_Adds(p) ==
    LET r == run[p] name == NodeName(r.i) IN
    /\ r.pc = "provision"
    /\ ~StateHas(r.state, name)
    /\ r.check_mode
    /\ LET state1 == StateAdd(r.state, name, ResourceRecord(name, Instance(name))) IN
       /\ stateFile' = state1
       /\ AfterLoop(p, [r EXCEPT !.i = r.i + 1,
                                 !.state = state1,
                                 !.hosts = @ \cup {name},
                                 !.created = r.created + 1,
                                 !.requests = Append(@, Request("create", name, "skipped"))])
    /\ UNCHANGED <<provider, prev, harness>>

ProvisionSkipped(p) ==
    LET r == run[p] name == NodeName(r.i) IN
    /\ r.pc = "provision"
    /\ ~StateHas(r.state, name)
    /\ r.check_mode
    /\ AfterLoop(p, [r EXCEPT !.i = r.i + 1,
                              !.requests = Append(@, Request("create", name, "skipped"))])
    /\ UNCHANGED <<stateFile, provider, prev, harness>>

\* lines 64-92: the create request succeeded; state.add raises ConflictError
\* for a name that is present
CreateAndAdd(p, r, name) ==
    /\ provider' = provider \cup {name}
    /\ IF StateHas(r.state, name)
       THEN /\ run' = [run EXCEPT ![p] =
                         Fail([r EXCEPT !.requests = Append(@, Request("create", name, "ok"))],
                              "ConflictError")]
            /\ UNCHANGED <<stateFile, inventory>>
       ELSE LET state1 == StateAdd(r.state, name, ResourceRecord(name, Instance(name))) IN
            /\ stateFile' = state1
            /\ AfterLoop(p, [r EXCEPT !.i = r.i + 1,
                                      !.state = state1,
                                      !.hosts = @ \cup {name},
                                      !.created = r.created + 1,
                                      !.requests = Append(@, Request("create", name, "ok"))])

\* the "exists" branch falls through to the create request
ProvisionCreated_NoContinue(p) ==
    LET r == run[p] name == NodeName(r.i) IN
    /\ r.pc = "provision"
    /\ ~r.check_mode
    /\ CreateAndAdd(p, r, name)
    /\ UNCHANGED <<prev, harness>>

ProvisionCreated(p) ==
    LET r == run[p] name == NodeName(r.i) IN
    /\ r.pc = "provision"
    /\ ~StateHas(r.state, name)
    /\ ~r.check_mode
    /\ CreateAndAdd(p, r, name)
    /\ UNCHANGED <<prev, harness>>

\* fail_fast=False: the failure is logged and the loop goes on
ProvisionCreateFailed_Continue(p) ==
    LET r == run[p] name == NodeName(r.i) IN
    /\ r.pc = "provision"
    /\ ~StateHas(r.state, name)
    /\ ~r.check_mode
    /\ AfterLoop(p, [r EXCEPT !.i = r.i + 1,
                              !.requests = Append(@, Request("create", name, "failed"))])
    /\ UNCHANGED <<stateFile, provider, prev, harness>>

ProvisionCreateFailed(p) ==
    LET r == run[p] name == NodeName(r.i) IN
    /\ r.pc = "provision"
    /\ ~StateHas(r.state, name)
    /\ ~r.check_mode
    /\ run' = [run EXCEPT ![p] = Fail([r EXCEPT !.requests = Append(@, Request("create", name, "failed"))],
                                      "ProviderError")]
    /\ UNCHANGED <<stateFile, provider, inventory, prev, harness>>

WaitForSshOk(p) ==
    LET r == run[p] IN
    /\ r.pc = "wait_for_ssh"
    /\ run' = [run EXCEPT ![p] = [r EXCEPT !.pc = "done", !.waited = TRUE,
                                           !.total = Cardinality(FleetNames(r.state))]]
    /\ inventory' = WriteAnsibleInventory(r.state)
    /\ UNCHANGED <<stateFile, provider, prev, harness>>

\* the records added by this run are removed again on timeout
WaitForSshTimeout_Rollback(p) ==
    LET r == run[p]
        state1 == [x \in (DOMAIN r.state) \ r.hosts |-> r.state[x]]
    IN
    /\ r.pc = "wait_for_ssh"
    /\ stateFile' = state1
    /\ run' = [run EXCEPT ![p] = Fail([r EXCEPT !.waited = TRUE, !.state = state1],
                                      "ReachabilityTimeoutError")]
    /\ UNCHANGED <<provider, inventory, prev, harness>>

WaitForSshTimeout(p) ==
    LET r == run[p] IN
    /\ r.pc = "wait_for_ssh"
    /\ run' = [run EXCEPT ![p] = Fail([r EXCEPT !.waited = TRUE], "ReachabilityTimeoutError")]
    /\ UNCHANGED <<stateFile, provider, inventory, prev, harness>>

(* ---------------------------- teardown.py ------------------------------ *)
\* lines 61-67: after the loop
AfterDestroy(p, r) ==
    IF r.names # <<>>
    THEN /\ run' = [run EXCEPT ![p] = r]
         /\ UNCHANGED inventory
    ELSE /\ run' = [run EXCEPT ![p] = [r EXCEPT !.pc = "done"]]
         /\ inventory' = NoInventory

StartTeardown(p, check_mode) ==
    LET names == FleetNames(stateFile)
        r == [IdleRun EXCEPT !.kind = "teardown", !.check_mode = check_mode,
                             !.state = stateFile, !.pre = stateFile,
                             !.pre_inventory = inventory, !.overlap = Overlaps(p)]
    IN
    /\ CanStart(p)
    /\ prev' = Ended(run[p])
    /\ IF names = {}
       THEN run' = [run EXCEPT ![p] = [r EXCEPT !.pc = "done"]]
       ELSE run' = [run EXCEPT ![p] = [r EXCEPT !.pc = "teardown", !.names = Sorted(names)]]
    /\ UNCHANGED <<stateFile, provider, inventory, harness>>

\* the record stays in the state document after the destroy request
TeardownDestroyed_NoRemove(p) ==
    LET r == run[p] name == Head(r.names) IN
    /\ r.pc = "teardown"
    /\ StateHas(r.state, name)
    /\ provider' = IF r.check_mode THEN provider ELSE provider \ {name}
    /\ AfterDestroy(p, [r EXCEPT !.names = Tail(@),
                                 !.requests = Append(@, Request("destroy", name,
                                                  IF r.check_mode THEN "skipped" ELSE "ok"))])
    /\ UNCHANGED <<stateFile, prev, harness>>

\* lines 50-59; state.get raises NotFoundError for a name that is absent
TeardownDestroyed(p) ==
    LET r == run[p] name == Head(r.names) IN
    /\ r.pc = "teardown"
    /\ IF ~StateHas(r.state, name)
       THEN /\ run' = [run EXCEPT ![p] = Fail(r, "NotFoundError")]
            /\ UNCHANGED <<stateFile, provider, inventory>>
       ELSE /\ provider' = IF r.check_mode THEN provider ELSE provider \ {name}
            /\ LET state1 == StateRemove(r.state, name) IN
               /\ stateFile' = state1
               /\ AfterDestroy(p, [r EXCEPT !.names = Tail(@),
                                            !.state = state1,
                                            !.requests = Append(@, Request("destroy", name,
                                                             IF r.check_mode THEN "skipped" ELSE "ok"))])
    /\ UNCHANGED <<prev, harness>>

\* state.remove placed before the destroy request
TeardownDestroyFailed_RemoveFirst(p) ==
    LET r == run[p] name == Head(r.names) IN
    /\ r.pc = "teardown"
    /\ StateHas(r.state, name)
    /\ ~r.check_mode
    /\ stateFile' = StateRemove(r.state, name)
    /\ run' = [run EXCEPT ![p] = Fail([r EXCEPT !.state = StateRemove(r.state, name),
                                                !.requests = Append(@, Request("destroy", name, "failed"))],
                                      "ProviderError")]
    /\ UNCHANGED <<provider, inventory, prev, harness>>

TeardownDestroyFailed(p) ==
    LET r == run[p] name == Head(r.names) IN
    /\ r.pc = "teardown"
    /\ StateHas(r.state, name)
    /\ ~r.check_mode
    /\ run' = [run EXCEPT ![p] = Fail([r EXCEPT !.requests = Append(@, Request("destroy", name, "failed"))],
                                      "ProviderError")]
    /\ UNCHANGED <<stateFile, provider, inventory, prev, harness>>

(* --------------------------- scale_test.py ----------------------------- *)
\* keys of TESTS in insertion order
TESTS == <<"gather_facts", "file_operations", "install_package", "copy_and_template">>

Elapsed == 0..MaxElapsed

\* the wall-clock values a run can measure: runs of the whole registry are
\* explored with a shorter clock than runs of one operation (--test)
Durations(h) == IF h.args.test = "" THEN Elapsed ELSE 0..MaxElapsedOne

\* the time of a failed run is stored and printed and never computed with:
\* a zero reading and the longest reading are explored
FailedDurations(h) == {0} \cup {t \in Durations(h) : \A u \in Durations(h) : u <= t}

\* times are in milliseconds, the unit round(elapsed, 3) keeps
NotRun == [present |-> FALSE, time |-> 0, success |-> FALSE]
Timed(success, elapsed) == [present |-> TRUE, time |-> elapsed, success |-> success]
NoSpeedup == [present |-> FALSE, value |-> 0]

\* what a subprocess or a test function that ran can return
Measured(h) ==
    {Timed(TRUE, t) : t \in Durations(h)} \cup {Timed(FALSE, t) : t \in FailedDurations(h)}

\* round(a / b, 2) in hundredths, ties to even
Round2(a, b) ==
    LET q == (100 * a) \div b
        rem == (100 * a) % b
    IN IF 2 * rem > b \/ (2 * rem = b /\ q % 2 = 1) THEN q + 1 ELSE q

count_hosts(m) == Cardinality({n \in StateResources(m) : Matches(n)})

HarnessExit(h, code, err) == [h EXCEPT !.pc = "done", !.exit = code, !.error = err]

\* lines 246-260: the summary after the loop
AfterOperation(h) ==
    IF h.tests_to_run # <<>> THEN h
    ELSE [h EXCEPT !.pc = "done", !.summary = TRUE, !.exit = 0]

\* int(speedup * 100) / 100 in place of round(speedup, 2)
WithSpeedup_Truncated(result) ==
    IF result.ansible.present /\ result.ftl2.present
       /\ result.ansible.success /\ result.ftl2.success
    THEN [result EXCEPT !.speedup = [present |-> TRUE,
                                     value |-> (100 * result.ansible.time) \div result.ftl2.time]]
    ELSE result

\* lines 237-244
WithSpeedup(result) ==
    IF result.ansible.present /\ result.ftl2.present
       /\ result.ansible.success /\ result.ftl2.success
    THEN [result EXCEPT !.speedup = [present |-> TRUE,
                                     value |-> Round2(result.ansible.time, result.ftl2.time)]]
    ELSE result

DividesByZero(result) ==
    /\ result.ansible.present /\ result.ftl2.present
    /\ result.ansible.success /\ result.ftl2.success
    /\ result.ftl2.time = 0

HarnessSetupOk ==
    /\ harness.pc = "start"
    /\ harness.args.setup
    /\ harness' = HarnessExit([harness EXCEPT !.venv = TRUE], 0, "none")
    /\ UNCHANGED <<stateFile, provider, inventory, run, prev>>

HarnessSetupFailed ==
    /\ harness.pc = "start"
    /\ harness.args.setup
    /\ harness' = HarnessExit(harness, 1, "CalledProcessError")
    /\ UNCHANGED <<stateFile, provider, inventory, run, prev>>

\* the host count is reported but the run goes on
HarnessNoHosts_NoExit ==
    /\ harness.pc = "start"
    /\ ~harness.args.setup
    /\ count_hosts(stateFile) = 0
    /\ harness' = [harness EXCEPT !.pc = "run", !.host_count = 0, !.tests_to_run = TESTS]
    /\ UNCHANGED <<stateFile, provider, inventory, run, prev>>

HarnessNoHosts ==
    /\ harness.pc = "start"
    /\ ~harness.args.setup
    /\ count_hosts(stateFile) = 0
    /\ harness' = HarnessExit([harness EXCEPT !.host_count = 0], 1, "SystemExit")
    /\ UNCHANGED <<stateFile, provider, inventory, run, prev>>

\* TESTS.get(args.test, TESTS): an unknown name selects the whole registry
HarnessUnknownTest_RunsAll ==
    /\ harness.pc = "start"
    /\ ~harness.args.setup
    /\ count_hosts(stateFile) # 0
    /\ harness.args.test # ""
    /\ harness.args.test \notin SeqSet(TESTS)
    /\ harness' = [harness EXCEPT !.pc = "run",
                                  !.host_count = count_hosts(stateFile),
                                  !.tests_to_run = TESTS]
    /\ UNCHANGED <<stateFile, provider, inventory, run, prev>>

HarnessUnknownTest ==
    /\ harness.pc = "start"
    /\ ~harness.args.setup
    /\ count_hosts(stateFile) # 0
    /\ harness.args.test # ""
    /\ harness.args.test \notin SeqSet(TESTS)
    /\ harness' = HarnessExit([harness EXCEPT !.host_count = count_hosts(stateFile)], 1, "KeyError")
    /\ UNCHANGED <<stateFile, provider, inventory, run, prev>>

HarnessSelect ==
    /\ harness.pc = "start"
    /\ ~harness.args.setup
    /\ count_hosts(stateFile) # 0
    /\ harness.args.test # "" => harness.args.test \in SeqSet(TESTS)
    /\ harness' = [harness EXCEPT !.pc = "run",
                                  !.host_count = count_hosts(stateFile),
                                  !.tests_to_run = IF harness.args.test # ""
                                                   THEN <<harness.args.test>> ELSE TESTS]
    /\ UNCHANGED <<stateFile, provider, inventory, run, prev>>

\* run_ansible without the Path(playbook).exists() test
AnsibleOutcomes_NoPlaybookCheck(h, name) ==
    IF h.args.ftl2_only THEN {NotRun}
    ELSE Measured(h)

\* run_ansible, lines 163-177, when it returns
AnsibleOutcomes(h, name) ==
    IF h.args.ftl2_only THEN {NotRun}
    ELSE IF name \notin h.playbooks THEN {Timed(FALSE, 0)}
    ELSE Measured(h)

AnsibleStarted(h, name) == ~h.args.ftl2_only /\ name \in h.playbooks /\ h.venv

\* run_ftl2, lines 180-190
Ftl2Outcomes(h) ==
    IF h.args.ansible_only THEN {NotRun}
    ELSE Measured(h)

Executed(h, name) ==
    (IF AnsibleStarted(h, name) THEN <<<<name, "ansible">>>> ELSE <<>>)
    \o (IF h.args.ansible_only THEN <<>> ELSE <<<<name, "ftl2">>>>)

\* get_ansible_playbook, lines 40-47: sys.exit(1) inside run_ansible
HarnessNoVenv ==
    LET name == Head(harness.tests_to_run) IN
    /\ harness.pc = "run"
    /\ ~harness.args.ftl2_only
    /\ name \in harness.playbooks
    /\ ~harness.venv
    /\ harness' = HarnessExit(harness, 1, "SystemExit")
    /\ UNCHANGED <<stateFile, provider, inventory, run, prev>>

HarnessOperation(a, f) ==
    LET name == Head(harness.tests_to_run)
        result == [name |-> name, hosts |-> harness.host_count,
                   ansible |-> a, ftl2 |-> f, speedup |-> NoSpeedup]
    IN
    /\ harness.pc = "run"
    /\ harness.args.ftl2_only \/ name \notin harness.playbooks \/ harness.venv
    /\ a \in AnsibleOutcomes(harness, name)
    /\ f \in Ftl2Outcomes(harness)
    /\ ~DividesByZero(result)
    /\ harness' = AfterOperation([harness EXCEPT
                      !.tests_to_run = Tail(@),
                      !.executed = @ \o Executed(harness, name),
                      !.all_results = Append(@, WithSpeedup(result))])
    /\ UNCHANGED <<stateFile, provider, inventory, run, prev>>

\* line 240 with result["ftl2"]["time"] == 0.0
HarnessZeroDivision(a, f) ==
    LET name == Head(harness.tests_to_run)
        result == [name |-> name, hosts |-> harness.host_count,
                   ansible |-> a, ftl2 |-> f, speedup |-> NoSpeedup]
    IN
    /\ harness.pc = "run"
    /\ harness.args.ftl2_only \/ name \notin harness.playbooks \/ harness.venv
    /\ a \in AnsibleOutcomes(harness, name)
    /\ f \in Ftl2Outcomes(harness)
    /\ DividesByZero(result)
    /\ harness' = HarnessExit([harness EXCEPT !.executed = @ \o Executed(harness, name)],
                              1, "ZeroDivisionError")
    /\ UNCHANGED <<stateFile, provider, inventory, run, prev>>

Outcomes == {NotRun} \cup {Timed(ok, t) : ok \in BOOLEAN, t \in Elapsed \cup (0..MaxElapsedOne)}

HarnessStores ==
    {EmptyStore,
     StateAdd(EmptyStore, OtherName, ResourceRecord(OtherName, Instance(OtherName))),
     StateAdd(EmptyStore, NodeName(0), ResourceRecord(NodeName(0), Instance(NodeName(0))))}

HarnessArgs ==
    {[setup |-> s, test |-> t, ftl2_only |-> fo, ansible_only |-> ao] :
        s \in BOOLEAN, t \in {"", "gather_facts", "no_such_test"},
        fo \in BOOLEAN, ao \in BOOLEAN}

\* one invocation of scale_test.py over a state document and a working directory
InitHarness ==
    /\ stateFile \in HarnessStores
    /\ provider = DOMAIN stateFile
    /\ inventory = IF FleetNames(stateFile) = {} THEN NoInventory
                   ELSE WriteAnsibleInventory(stateFile)
    /\ run = [p \in Procs |-> IdleRun]
    /\ prev = NoPrev
    /\ \E args \in HarnessArgs, venv \in BOOLEAN,
          playbooks \in {SeqSet(TESTS), SeqSet(TESTS) \ {"gather_facts"}} :
          harness = [IdleHarness EXCEPT !.pc = "start", !.args = args,
                                        !.venv = venv, !.playbooks = playbooks]

NextHarness ==
    \/ HarnessSetupOk
    \/ HarnessSetupFailed
    \/ HarnessNoHosts
    \/ HarnessUnknownTest
    \/ HarnessSelect
    \/ HarnessNoVenv
    \/ \E a \in Outcomes, f \in Outcomes : HarnessOperation(a, f)
    \/ \E a \in Outcomes, f \in Outcomes : HarnessZeroDivision(a, f)

SpecHarness == InitHarness /\ [][NextHarness]_vars

(* --------------------------- specification ----------------------------- *)
Next ==
    \/ \E count \in Counts, check_mode \in BOOLEAN : StartProvision(1, count, check_mode)
    \/ ProvisionExists(1)
    \/ ProvisionSkipped(1)
    \/ ProvisionCreated(1)
    \/ ProvisionCreateFailed(1)
    \/ WaitForSshOk(1)
    \/ WaitForSshTimeout(1)
    \/ \E check_mode \in BOOLEAN : StartTeardown(1, check_mode)
    \/ TeardownDestroyed(1)
    \/ TeardownDestroyFailed(1)

Spec == Init /\ [][Next]_vars

(* ------------------------ two invocations at once ---------------------- *)
FleetStore(n) == [x \in Range(0, n) |-> ResourceRecord(x, Instance(x))]

ConcurrentStores == {FleetStore(0), FleetStore(1), FleetStore(2)}

\* two processes, one invocation of provision.py or teardown.py each, over
\* the same state document; each holds the document it loaded in memory and
\* rewrites the whole file on add and remove
InitConcurrent ==
    /\ stateFile \in ConcurrentStores
    /\ provider = DOMAIN stateFile
    /\ inventory = IF FleetNames(stateFile) = {} THEN NoInventory
                   ELSE WriteAnsibleInventory(stateFile)
    /\ run = [p \in Procs |-> IdleRun]
    /\ prev = NoPrev
    /\ harness = IdleHarness

NextConcurrent ==
    \E p \in Procs :
        \/ /\ run[p].pc = "idle"
           /\ \E count \in Counts, check_mode \in BOOLEAN : StartProvision(p, count, check_mode)
        \/ /\ run[p].pc = "idle"
           /\ \E check_mode \in BOOLEAN : StartTeardown(p, check_mode)
        \/ ProvisionExists(p)
        \/ ProvisionSkipped(p)
        \/ ProvisionCreated(p)
        \/ ProvisionCreateFailed(p)
        \/ WaitForSshOk(p)
        \/ WaitForSshTimeout(p)
        \/ TeardownDestroyed(p)
        \/ TeardownDestroyFailed(p)

SpecConcurrent == InitConcurrent /\ [][NextConcurrent]_vars

(* ------------------------------ properties ----------------------------- *)
R == run[1]

RECURSIVE RangeSeq(_, _)
RangeSeq(a, b) == IF a >= b THEN <<>> ELSE <<NodeName(a)>> \o RangeSeq(a + 1, b)

Labels(requests) == [k \in 1..Len(requests) |-> requests[k].label]

AllResult(requests, result) == \A k \in 1..Len(requests) : requests[k].result = result

Added == (DOMAIN stateFile) \ (DOMAIN R.pre)

PrevProvisioned == prev.kind = "provision" /\ ~prev.check_mode /\ prev.error = "none"

\* C1: a provisioning run with target N that follows a successful non-dry
\* provisioning run with the same N issues no create request and leaves the
\* state document as it was when the run started.
C1_Idempotent ==
    (R.kind = "provision" /\ PrevProvisioned /\ prev.count = R.count)
        => (R.requests = <<>> /\ stateFile = R.pre)

C1_Witness ==
    /\ R.kind = "provision" /\ PrevProvisioned /\ prev.count = R.count
    /\ R.count >= 2 /\ R.pc = "done" /\ R.error = "none"

\* C2: after a successful non-dry run with target N1 that started from a store
\* with no fleet name, a non-dry run with target N2 > N1 whose creates all
\* succeed issues exactly the creates prefix-N1 .. prefix-(N2-1), in ascending
\* index order, and adds exactly those names to the state document.
C2_MonotonicGrowth ==
    (/\ R.kind = "provision" /\ ~R.check_mode
     /\ PrevProvisioned /\ {n \in prev.pre : Matches(n)} = {}
     /\ prev.count < R.count
     /\ R.pc \in {"wait_for_ssh", "done"} /\ R.error # "ProviderError")
        => /\ Labels(R.requests) = RangeSeq(prev.count, R.count)
           /\ AllResult(R.requests, "ok")
           /\ Len(R.requests) = R.count - prev.count
           /\ Added = Range(prev.count, R.count)

C2_Witness ==
    /\ R.kind = "provision" /\ ~R.check_mode
    /\ PrevProvisioned /\ {n \in prev.pre : Matches(n)} = {}
    /\ prev.count = 1 /\ R.count = 3
    /\ R.pc = "done" /\ R.error = "none"

FailedCreates == {k \in 1..Len(R.requests) : R.requests[k].op = "create" /\ R.requests[k].result = "failed"}

\* C3: once the create request for prefix-k has failed, the run is over with
\* ProviderError: every prefix-i with i < k is recorded, no prefix-j with
\* j >= k was added, no create was issued for an index above k, and there was
\* no reachability wait and no "node(s) ready" report.
C3_FailFast ==
    \A f \in FailedCreates :
        LET k == R.requests[f].label[2] IN
        /\ R.pc = "done" /\ R.error = "ProviderError"
        /\ \A i \in 0..(k - 1) : NodeName(i) \in DOMAIN stateFile
        /\ \A n \in Added : n[2] < k
        /\ \A q \in 1..Len(R.requests) : R.requests[q].label[2] <= k
        /\ ~R.waited /\ R.total = -1

C3_Witness ==
    /\ FailedCreates # {} /\ R.count = 3 /\ R.i = 1
    /\ R.pre = EmptyStore /\ DOMAIN stateFile = {NodeName(0)}

\* C4 as claimed: after a successful non-dry provisioning run with target N
\* the fleet names of the state document are exactly prefix-0 .. prefix-(N-1).
C4_ExactCount ==
    (R.kind = "provision" /\ ~R.check_mode /\ R.pc = "done" /\ R.error = "none")
        => FleetNames(stateFile) = Range(0, R.count)

\* C4 amended: after a successful non-dry provisioning run with target N the
\* fleet names of the state document are exactly prefix-0 .. prefix-(N-1)
\* together with the fleet names it held before the run.
C4_TargetAndPrior ==
    (R.kind = "provision" /\ ~R.check_mode /\ R.pc = "done" /\ R.error = "none")
        => FleetNames(stateFile) = Range(0, R.count) \cup FleetNames(R.pre)

C4_Witness ==
    /\ R.kind = "provision" /\ ~R.check_mode /\ R.pc = "done" /\ R.error = "none"
    /\ R.count = 2 /\ FleetNames(R.pre) = {NodeName(1), NodeName(2)}
    /\ FleetNames(stateFile) = Range(0, 3)

\* C5: whenever a teardown run returns without error, no name of the state
\* document matches the prefix and the ansible-inventory file does not exist.
C5_TeardownComplete ==
    (R.kind = "teardown" /\ R.pc = "done" /\ R.error = "none")
        => (FleetNames(stateFile) = {} /\ ~inventory.exists)

\* C6: a teardown run in --check mode removes no record: the state document
\* stays equal to what it was when the run started.
C6_DryTeardownKeepsStore ==
    (R.kind = "teardown" /\ R.check_mode) => stateFile = R.pre

FailedDestroys == {k \in 1..Len(R.requests) : R.requests[k].op = "destroy" /\ R.requests[k].result = "failed"}

\* C7: when the destroy request fails for the k-th name in sorted order, the
\* k-1 names before it are destroyed at the provider and removed from the
\* state document, that name and the later ones are still recorded and no
\* destroy was issued for the later ones, the ansible-inventory file is as it
\* was, and the teardown run that follows issues destroy requests only for
\* names that were left.
C7_TeardownResumes ==
    /\ \A k \in FailedDestroys :
          LET names == Sorted(FleetNames(R.pre)) IN
          /\ R.pc = "done" /\ R.error = "ProviderError"
          /\ Len(R.requests) = k
          /\ Labels(R.requests) = SubSeq(names, 1, k)
          /\ \A j \in 1..(k - 1) :
                /\ R.requests[j].result = "ok"
                /\ names[j] \notin provider
                /\ names[j] \notin DOMAIN stateFile
          /\ \A j \in k..Len(names) :
                names[j] \in DOMAIN stateFile /\ stateFile[names[j]] = R.pre[names[j]]
          /\ inventory = R.pre_inventory
    /\ (R.kind = "teardown" /\ prev.kind = "teardown" /\ prev.error = "ProviderError")
          => \A q \in 1..Len(R.requests) :
                /\ R.requests[q].label \in FleetNames(R.pre)
                /\ R.requests[q].label \notin (prev.pre \ DOMAIN R.pre)

C7_Witness ==
    /\ R.kind = "teardown" /\ prev.kind = "teardown" /\ prev.error = "ProviderError"
    /\ Cardinality({n \in prev.pre : Matches(n)}) = 3
    /\ Cardinality(FleetNames(R.pre)) = 2
    /\ FailedDestroys = {2}
    /\ inventory.exists

\* C8: a reachability timeout ends the provisioning run in failure with every
\* record the run added still in the state document, and a retry with the
\* same N issues no create request for those names.
C8_TimeoutKeepsRecords ==
    /\ (R.kind = "provision" /\ R.error = "ReachabilityTimeoutError")
          => /\ R.pc = "done" /\ R.waited /\ R.total = -1
             /\ R.hosts # {}
             /\ \A n \in R.hosts : n \in DOMAIN stateFile /\ n \notin DOMAIN R.pre
             /\ \A q \in 1..Len(R.requests) :
                   R.requests[q].result = "ok" => R.requests[q].label \in DOMAIN stateFile
    /\ (R.kind = "provision" /\ prev.kind = "provision"
        /\ prev.error = "ReachabilityTimeoutError" /\ prev.count = R.count)
          => /\ (DOMAIN R.pre) \ prev.pre # {}
             /\ \A q \in 1..Len(R.requests) :
                   R.requests[q].label \notin ((DOMAIN R.pre) \ prev.pre)

C8_Witness ==
    /\ R.kind = "provision" /\ prev.kind = "provision"
    /\ prev.error = "ReachabilityTimeoutError" /\ prev.count = R.count
    /\ R.count = 2 /\ R.pc = "done" /\ R.error = "none"
    /\ Cardinality((DOMAIN R.pre) \ prev.pre) = 2

\* C9: in a --check provisioning run every create request returns the skipped
\* marker, no record is added to the state document, no host is registered
\* and the reachability wait is not entered.
C9_DryProvision ==
    (R.kind = "provision" /\ R.check_mode)
        => /\ AllResult(R.requests, "skipped")
           /\ stateFile = R.pre /\ R.state = R.pre
           /\ R.hosts = {}
           /\ R.pc # "wait_for_ssh" /\ ~R.waited

C9_Witness ==
    /\ R.kind = "provision" /\ R.check_mode /\ R.pc = "done"
    /\ R.count = 3 /\ Len(R.requests) = 2 /\ FleetNames(R.pre) = {NodeName(1)}

\* C10 as claimed: when no name of the state document matches the prefix, the
\* harness exits non-zero and executes no backend.
C10_ZeroHostGuard ==
    (harness.pc = "done" /\ count_hosts(stateFile) = 0)
        => (harness.exit # 0 /\ harness.executed = <<>>)

\* C10 amended: when no name of the state document matches the prefix and
\* the harness is not invoked with --setup, it exits non-zero and executes
\* no backend.
C10_ZeroHostGuardNoSetup ==
    (harness.pc # "start" /\ count_hosts(stateFile) = 0 /\ ~harness.args.setup)
        => /\ harness.pc = "done" /\ harness.exit = 1
           /\ harness.executed = <<>> /\ harness.all_results = <<>>

C10_Witness ==
    /\ harness.pc = "done" /\ count_hosts(stateFile) = 0 /\ ~harness.args.setup
    /\ OtherName \in DOMAIN stateFile /\ harness.venv /\ harness.args.test = ""

H == harness

Selected == IF H.args.test = "" THEN TESTS ELSE <<H.args.test>>

ResultNames == [k \in 1..Len(H.all_results) |-> H.all_results[k].name]

Results == {H.all_results[k] : k \in 1..Len(H.all_results)}

BothSucceeded(r) == r.ansible.present /\ r.ftl2.present /\ r.ansible.success /\ r.ftl2.success

Abs(x) == IF x < 0 THEN -x ELSE x

\* C11: with at least one tracked host, a valid selection and the Ansible venv
\* in place, whatever the two backends return (success or failure, any
\* duration, zero included) the run ends in the summary with exactly one
\* result per selected operation, in registry order.
C11_BackendFailuresContained ==
    (/\ H.pc = "done" /\ H.host_count > 0 /\ H.venv
     /\ H.args.test \in {""} \cup SeqSet(TESTS))
        => /\ H.summary /\ H.exit = 0
           /\ ResultNames = Selected
           /\ \A r \in Results : ~H.args.ansible_only => r.ftl2.present

\* C12 as claimed: a failed baseline is always recorded with elapsed time 0.0
\* and no baseline condition ends the harness.
C12_BaselineNeverCrashes ==
    /\ \A r \in Results : (r.ansible.present /\ ~r.ansible.success) => r.ansible.time = 0
    /\ ~(H.pc = "done" /\ H.host_count > 0 /\ H.error = "SystemExit")

\* C12 amended: a missing playbook is recorded as success=false with elapsed
\* time 0.0, a failed playbook run as success=false with the measured time,
\* and in both cases the harness goes on with backend_b and the next
\* operation; the one baseline condition that ends the harness (exit 1) is
\* an existing playbook with no ansible-playbook in the venv.
C12_BaselineFailureIsData ==
    /\ \A r \in Results :
          /\ ~H.args.ftl2_only => r.ansible.present
          /\ (~H.args.ftl2_only /\ r.name \notin H.playbooks) => r.ansible = Timed(FALSE, 0)
          /\ (r.ansible.present /\ ~r.ansible.success)
                => (~r.speedup.present /\ (~H.args.ansible_only => r.ftl2.present))
    /\ H.pc = "run" => Len(H.all_results) + Len(H.tests_to_run) = Len(Selected)
    /\ (H.pc = "done" /\ H.host_count > 0 /\ H.error = "SystemExit")
          => (~H.venv /\ ~H.args.ftl2_only /\ Head(H.tests_to_run) \in H.playbooks)

C12_Witness ==
    /\ H.pc = "done" /\ H.summary /\ Len(H.all_results) = 4
    /\ H.all_results[1].ansible = Timed(FALSE, 0) /\ "gather_facts" \notin H.playbooks
    /\ H.all_results[2].ansible = Timed(FALSE, 1)
    /\ H.all_results[2].ftl2.present /\ H.all_results[3].ansible.success

\* C13 as claimed: a result has a speedup exactly when both backends ran and
\* succeeded, and the speedup is the quotient backend_a.time / backend_b.time.
C13_SpeedupExact ==
    \A r \in Results :
        /\ r.speedup.present <=> BothSucceeded(r)
        /\ r.speedup.present => r.speedup.value * r.ftl2.time = 100 * r.ansible.time

\* C13 amended: a result has a speedup exactly when both backends ran and
\* succeeded, and the speedup is backend_a.time / backend_b.time rounded to
\* two decimals (the hundredth nearest to the quotient).
C13_SpeedupRounded ==
    \A r \in Results :
        /\ r.speedup.present <=> BothSucceeded(r)
        /\ r.speedup.present
              => 2 * Abs(100 * r.ansible.time - r.speedup.value * r.ftl2.time) <= r.ftl2.time

C13_Witness ==
    \E r \in Results :
        /\ r.speedup.present /\ r.ansible.time = 2 /\ r.ftl2.time = 3
        /\ r.speedup.value = 67

UnknownTest == H.args.test \notin {""} \cup SeqSet(TESTS)

\* C14 as claimed: when --test names no registered operation the harness
\* exits non-zero and executes no backend.
C14_UnknownTestRejected ==
    (H.pc = "done" /\ UnknownTest) => (H.exit # 0 /\ H.executed = <<>>)

\* C14 amended: when --test names no registered operation and the harness is
\* not invoked with --setup, it exits non-zero (the zero-host guard, or the
\* KeyError of the registry lookup) and executes no backend.
C14_UnknownTestRejectedNoSetup ==
    (H.pc # "start" /\ UnknownTest /\ ~H.args.setup)
        => /\ H.pc = "done" /\ H.exit = 1
           /\ H.error \in {"SystemExit", "KeyError"}
           /\ H.executed = <<>> /\ H.all_results = <<>>

C14_Witness ==
    /\ H.pc = "done" /\ UnknownTest /\ ~H.args.setup
    /\ H.error = "KeyError" /\ H.host_count = 1

InventoryNames == [k \in 1..Len(inventory.hosts) |-> inventory.hosts[k].name]

\* C15: when a provisioning run completes, dry or not, ansible-inventory
\* holds exactly one host line, with the recorded address, for every fleet
\* name of the state document, names of earlier runs included, and no line
\* for any other name.
C15_InventoryCoversFleet ==
    (R.kind = "provision" /\ R.pc = "done" /\ R.error = "none")
        => /\ inventory.exists
           /\ SeqSet(InventoryNames) = FleetNames(stateFile)
           /\ Len(inventory.hosts) = Cardinality(FleetNames(stateFile))
           /\ \A k \in 1..Len(inventory.hosts) :
                 inventory.hosts[k].ansible_host = stateFile[inventory.hosts[k].name].ipv4[1]

C15_Witness ==
    /\ R.kind = "provision" /\ R.pc = "done" /\ R.error = "none" /\ R.check_mode
    /\ R.count = 3 /\ R.pre_inventory.exists /\ Len(R.pre_inventory.hosts) = 3
    /\ FleetNames(stateFile) = {NodeName(1), NodeName(2)}
    /\ OtherName \in DOMAIN stateFile
    /\ Len(inventory.hosts) = 2

\* C16: at the end of every provisioning or teardown run, completed or
\* aborted by a provider failure, every name of the state document is a
\* resource that exists at the provider.
C16_NoGhostEntries ==
    R.pc = "done" => \A n \in DOMAIN stateFile : n \in provider

C16_Witness ==
    /\ R.kind = "teardown" /\ R.pc = "done" /\ R.error = "ProviderError"
    /\ FleetNames(stateFile) = {NodeName(1), NodeName(2)}
    /\ NodeName(0) \notin provider /\ FleetNames(R.pre) = Range(0, 3)

OkCreates(p) ==
    {run[p].requests[k].label :
        k \in {j \in 1..Len(run[p].requests) :
                 run[p].requests[j].op = "create" /\ run[p].requests[j].result = "ok"}}

DoubleCreate == OkCreates(1) \cap OkCreates(2) # {}

UsageError == \E p \in Procs : run[p].error \in {"ConflictError", "NotFoundError"}

GhostEntry == \E n \in DOMAIN stateFile : n \notin provider

\* the ledger is corrupt once both invocations are over: a name was created
\* twice, a State Store call raised a usage error, or the state document
\* names a resource the provider does not have
Corrupted ==
    /\ \A p \in Procs : run[p].pc = "done"
    /\ DoubleCreate \/ UsageError \/ GhostEntry

\* C17: two invocations over the same state document can end with a corrupt
\* ledger (the witness), and they do so only when one was started while the
\* other was in progress.
C17_CorruptionNeedsOverlap ==
    Corrupted => \E p \in Procs : run[p].overlap

C17_Witness ==
    /\ Corrupted /\ GhostEntry /\ ~UsageError
    /\ run[1].kind = "teardown" /\ run[2].kind = "provision"
    /\ run[1].error = "none" /\ run[2].error = "none"

\* C18: whenever a benchmark run can start (no provisioning or teardown run
\* in progress), the host names of ansible-inventory are the fleet names of
\* the state document.
C18_SameFleet ==
    CanStart(1) => SeqSet(InventoryNames) = FleetNames(stateFile)

Distinct(seq) == \A j, k \in 1..Len(seq) : j # k => seq[j] # seq[k]

\* C19: a single invocation never raises ConflictError or NotFoundError:
\* every create-and-add is for a name the state document did not hold, every
\* get-destroy-remove is for a name it held, and no name is handled twice.
C19_NoUsageError ==
    /\ R.error \notin {"ConflictError", "NotFoundError"}
    /\ Distinct(Labels(R.requests))
    /\ \A k \in 1..Len(R.requests) :
          /\ R.requests[k].op = "create" => R.requests[k].label \notin DOMAIN R.pre
          /\ R.requests[k].op = "destroy" => R.requests[k].label \in DOMAIN R.pre
          /\ R.requests[k].result = "ok"
                => (R.requests[k].op = "create" <=> R.requests[k].label \in DOMAIN stateFile)

C19_Witness ==
    /\ R.kind = "teardown" /\ R.pc = "done" /\ R.error = "none" /\ ~R.check_mode
    /\ Len(R.requests) = 3 /\ prev.kind = "provision" /\ prev.count = 3
    /\ OtherName \in DOMAIN stateFile

\* C20: a non-dry provisioning run that completes successfully as the retry
\* of a run aborted by the reachability timeout has waited for reachability
\* (the nodes that aborted run created have passed no wait before).
C20_ReadyImpliesReachable ==
    (/\ R.kind = "provision" /\ ~R.check_mode /\ R.pc = "done" /\ R.error = "none"
     /\ prev.kind = "provision" /\ prev.error = "ReachabilityTimeoutError"
     /\ prev.count = R.count)
        => R.waited

====
